---- MODULE Spec2Model ----
(***************************************************************************)
(* Model of the etl-stack repository: the stand-alone pipeline script      *)
(* src/etl/etl.py (five stages, each in a retry loop) and the Airflow DAG  *)
(* src/airflow/dags/product.py (init, extract, prepare, three transforms,  *)
(* merge).                                                                 *)
(***************************************************************************)
EXTENDS Integers, Sequences, FiniteSets, TLC

(***************************************************************************)
(* Cell values. pandas cells are loosely typed; every kind of cell has its *)
(* own record shape, so cells of different kinds compare unequal.          *)
(***************************************************************************)
Null == [null |-> TRUE]

IntV(n) == [i |-> n]

StrV(s) == [s |-> s]

\* a decimal (money / float) cell, held as a whole number of hundredths
DecV(c) == [cents |-> c]

IsNull(v) == "null" \in DOMAIN v

IsInt(v) == "i" \in DOMAIN v

IsStr(v) == "s" \in DOMAIN v

IsDec(v) == "cents" \in DOMAIN v

\* an exception raised by a call, in place of its result
Err(kind) == [err |-> kind]

IsErr(x) == "err" \in DOMAIN x

\* largest whole number the string parser recognises
MaxParse == 3

\* int("...") / float("...") on a string cell: the number whose decimal
\* text is the string, or -1 when the string is not numeric
ParseNat(s) ==
    IF \E n \in 0..MaxParse : ToString(n) = s
    THEN CHOOSE n \in 0..MaxParse : ToString(n) = s
    ELSE -1

\* Series.fillna(default): only null cells are replaced
fillna(v, default) == IF IsNull(v) THEN StrV(default) ELSE v

\* one cell of Series.astype(int)
astype_int(v) ==
    IF IsInt(v) THEN v
    ELSE IF IsDec(v) THEN IntV(v.cents \div 100)
    ELSE IF IsStr(v) /\ ParseNat(v.s) >= 0 THEN IntV(ParseNat(v.s))
    ELSE Err("ValueError")

\* one cell of Series.astype(float)
astype_float(v) ==
    IF IsInt(v) THEN DecV(v.i * 100)
    ELSE IF IsDec(v) THEN v
    ELSE IF IsStr(v) /\ ParseNat(v.s) >= 0 THEN DecV(ParseNat(v.s) * 100)
    ELSE Err("ValueError")

\* "{:.01f}".format: one decimal place
format_01f(v) ==
    LET whole == v.cents \div 100
        frac  == (v.cents % 100) \div 10
    IN StrV(ToString(whole) \o "." \o ToString(frac))

\* "{:.02f}".format applied to a float cell
format_02f(v) ==
    LET whole == v.cents \div 100
        frac  == v.cents % 100
    IN StrV(ToString(whole) \o "."
            \o (IF frac < 10 THEN "0" ELSE "") \o ToString(frac))

\* df[col].astype(float).apply("{:.02f}".format), one cell
money(v) == IF IsErr(astype_float(v)) THEN astype_float(v)
            ELSE format_02f(astype_float(v))

(***************************************************************************)
(* Table snapshots (DataFrames): an ordered list of column names and a     *)
(* sequence of rows, each row a function from column name to cell.         *)
(***************************************************************************)
Range(s) == {s[k] : k \in 1..Len(s)}

DataFrame(cols, rows) == [cols |-> cols, rows |-> rows]

\* a projection that keeps every column of df
project_all(df, retain) ==
    IF ~(Range(retain) \subseteq Range(df.cols)) THEN Err("KeyError")
    ELSE DataFrame(df.cols, df.rows)

\* df[[c1, ..., cn]] : KeyError when a listed column is missing
project(df, retain) ==
    IF ~(Range(retain) \subseteq Range(df.cols)) THEN Err("KeyError")
    ELSE DataFrame(retain,
            [k \in 1..Len(df.rows) |-> [c \in Range(retain) |-> df.rows[k][c]]])

\* a fill that overwrites every cell of the columns of the fill map
fill_every(df, defaults) ==
    DataFrame(df.cols,
        [k \in 1..Len(df.rows) |->
            [c \in Range(df.cols) |->
                IF c \in DOMAIN defaults
                THEN StrV(defaults[c])
                ELSE df.rows[k][c]]])

\* df[col].fillna(default, inplace=True) for every col of the fill map
fill(df, defaults) ==
    DataFrame(df.cols,
        [k \in 1..Len(df.rows) |->
            [c \in Range(df.cols) |->
                IF c \in DOMAIN defaults
                THEN fillna(df.rows[k][c], defaults[c])
                ELSE df.rows[k][c]]])

NewName(c, columns) == IF c \in DOMAIN columns THEN columns[c] ELSE c

OldName(c, cols, columns) == CHOOSE o \in Range(cols) : NewName(o, columns) = c

\* df.rename(columns={...})
rename(df, columns) ==
    LET newcols == [k \in 1..Len(df.cols) |-> NewName(df.cols[k], columns)]
    IN DataFrame(newcols,
          [k \in 1..Len(df.rows) |->
              [c \in Range(newcols) |-> df.rows[k][OldName(c, df.cols, columns)]]])

\* a cast that puts zero where the cell is no number (errors="coerce")
cast_lenient(v, kind) ==
    IF kind = "int"
    THEN (IF IsErr(astype_int(v)) THEN IntV(0) ELSE astype_int(v))
    ELSE (IF IsErr(money(v)) THEN StrV("0.00") ELSE money(v))

\* the cast of one cell: "int" is astype(int), "money" the two-decimal text
cast(v, kind) == IF kind = "int" THEN astype_int(v) ELSE money(v)

\* df[col] = cast of df[col] : the whole assignment raises when one cell does
coerce(df, col, kind) ==
    IF \E k \in 1..Len(df.rows) : IsErr(cast(df.rows[k][col], kind))
    THEN Err("ValueError")
    ELSE DataFrame(df.cols,
            [k \in 1..Len(df.rows) |->
                [c \in Range(df.cols) |->
                    IF c = col THEN cast(df.rows[k][c], kind) ELSE df.rows[k][c]]])

ProductRetain ==
    << "ProductKey", "ProductAlternateKey", "ProductSubcategoryKey",
       "WeightUnitMeasureCode", "SizeUnitMeasureCode", "EnglishProductName",
       "StandardCost", "FinishedGoodsFlag", "Color", "SafetyStockLevel",
       "ReorderPoint", "ListPrice", "Size", "SizeRange", "Weight",
       "DaysToManufacture", "ProductLine", "DealerPrice", "Class", "Style",
       "ModelName", "EnglishDescription", "StartDate", "EndDate", "Status" >>

\* the fill map without a default for ProductSubcategoryKey
ProductFill_nokey ==
    [ WeightUnitMeasureCode |-> "NA",
      SizeUnitMeasureCode |-> "NA", StandardCost |-> "0", ListPrice |-> "0",
      ProductLine |-> "NA", Class |-> "NA", Style |-> "NA", Size |-> "NA",
      ModelName |-> "NA", EnglishDescription |-> "NA", DealerPrice |-> "0",
      Weight |-> "0", EndDate |-> "NA", Status |-> "NA" ]

ProductFill ==
    [ WeightUnitMeasureCode |-> "NA", ProductSubcategoryKey |-> "0",
      SizeUnitMeasureCode |-> "NA", StandardCost |-> "0", ListPrice |-> "0",
      ProductLine |-> "NA", Class |-> "NA", Style |-> "NA", Size |-> "NA",
      ModelName |-> "NA", EnglishDescription |-> "NA", DealerPrice |-> "0",
      Weight |-> "0", EndDate |-> "NA", Status |-> "NA" ]

ProductRename ==
    [ EnglishDescription |-> "Description", EnglishProductName |-> "ProductName" ]

tf_product(df) ==
    LET d1 == project(df, ProductRetain)
        d2 == rename(fill(d1, ProductFill), ProductRename)
        d3 == coerce(d2, "ProductSubcategoryKey", "int")
        d4 == coerce(d3, "StandardCost", "money")
    IN IF IsErr(d1) THEN d1
       ELSE IF IsErr(d3) THEN d3
       ELSE IF IsErr(d4) THEN d4
       ELSE coerce(d4, "ListPrice", "money")

CategoryRetain ==
    << "ProductCategoryKey", "ProductCategoryAlternateKey",
       "EnglishProductCategoryName" >>

CategoryRename == [ EnglishProductCategoryName |-> "ProductCategoryName" ]

tf_product_category(df) ==
    LET d1 == project(df, CategoryRetain)
    IN IF IsErr(d1) THEN d1 ELSE rename(d1, CategoryRename)

SubcategoryRetain ==
    << "ProductSubcategoryKey", "EnglishProductSubcategoryName",
       "ProductSubcategoryAlternateKey", "ProductCategoryKey" >>

SubcategoryRename == [ EnglishProductSubcategoryName |-> "ProductSubcategoryName" ]

tf_product_subcategory(df) ==
    LET d1 == project(df, SubcategoryRetain)
    IN IF IsErr(d1) THEN d1 ELSE rename(d1, SubcategoryRename)

(***************************************************************************)
(* Databases: a function from table name to DataFrame.                     *)
(***************************************************************************)
EmptyDB == [n \in {} |-> DataFrame(<<>>, <<>>)]

\* DataFrame.to_sql that appends to a table that exists (if_exists="append")
to_sql_append(db, name, df) ==
    [n \in DOMAIN db \cup {name} |->
        IF n # name THEN db[n]
        ELSE IF name \in DOMAIN db
             THEN DataFrame(df.cols, db[name].rows \o df.rows)
        ELSE df]

\* DataFrame.to_sql(name, engine, if_exists="replace", index=False)
to_sql_replace(db, name, df) ==
    [n \in DOMAIN db \cup {name} |-> IF n = name THEN df ELSE db[n]]

(***************************************************************************)
(* DataFrame.merge(right, on=key), an inner join as merge_tables uses it.  *)
(***************************************************************************)
\* a join that pairs every left row with every right row
key_match_any(l, r, on) == TRUE

\* a left row and a right row are joined when their key cells are equal
key_match(l, r, on) == l[on] = r[on]

\* the non-key columns both sides hold
Overlap(left, right, on) ==
    (Range(left.cols) \cap Range(right.cols)) \ {on}

\* names of the merged columns: a non-key column held by both sides gets the
\* suffix _x on the left and _y on the right
LeftName(c, overlap) == IF c \in overlap THEN c \o "_x" ELSE c

RightName(c, overlap) == IF c \in overlap THEN c \o "_y" ELSE c

RightRest(right, on) == SelectSeq(right.cols, LAMBDA c : c # on)

merged_cols(left, right, on, overlap) ==
    [k \in 1..Len(left.cols) |-> LeftName(left.cols[k], overlap)]
    \o [k \in 1..Len(RightRest(right, on)) |->
            RightName(RightRest(right, on)[k], overlap)]

\* the merged row of left row l and right row r: the cells of l, then the
\* cells of r but its key
join_row(l, r, on, overlap) ==
    IF overlap = {}
    THEN l @@ [c \in DOMAIN r \ {on} |-> r[c]]
    ELSE [c \in {LeftName(a, overlap) : a \in DOMAIN l}
                \cup {RightName(b, overlap) : b \in DOMAIN r \ {on}} |->
            IF \E a \in DOMAIN l : LeftName(a, overlap) = c
            THEN l[CHOOSE a \in DOMAIN l : LeftName(a, overlap) = c]
            ELSE r[CHOOSE b \in DOMAIN r \ {on} : RightName(b, overlap) = c]]

\* a left join: a left row without a match is kept, with nulls on the right
joined_rows_left(l, right, on, overlap) ==
    LET hits == SelectSeq(right.rows, LAMBDA r : key_match(l, r, on))
    IN IF Len(hits) = 0
       THEN << l @@ [c \in {RightName(b, overlap) : b \in Range(right.cols) \ {on}}
                        |-> Null] >>
       ELSE [k \in 1..Len(hits) |-> join_row(l, hits[k], on, overlap)]

\* the merged rows one left row gives: one per matching right row, in order
joined_rows(l, right, on, overlap) ==
    LET hits == SelectSeq(right.rows, LAMBDA r : key_match(l, r, on))
    IN [k \in 1..Len(hits) |-> join_row(l, hits[k], on, overlap)]

RECURSIVE JoinFirst(_, _, _, _, _)
JoinFirst(left, right, on, overlap, n) ==
    IF n = 0 THEN << >>
    ELSE JoinFirst(left, right, on, overlap, n - 1)
         \o joined_rows(left.rows[n], right, on, overlap)

\* left.merge(right, on=on)
merge(left, right, on) ==
    IF on \notin Range(left.cols) \/ on \notin Range(right.cols)
    THEN Err("KeyError")
    ELSE LET overlap == Overlap(left, right, on)
         IN DataFrame(merged_cols(left, right, on, overlap),
                      JoinFirst(left, right, on, overlap, Len(left.rows)))

\* p.merge(ps, on="ProductSubcategoryKey").merge(pc, on="ProductCategoryKey")
merge_tables(p, ps, pc) ==
    LET first == merge(p, ps, "ProductSubcategoryKey")
    IN IF IsErr(first) THEN first ELSE merge(first, pc, "ProductCategoryKey")

\* the names of the IN (...) list of the catalog query
AllowList == {"DimProduct", "DimProductCategory", "DimProductSubcategory"}

(***************************************************************************)
(* src/etl/etl.py                                                          *)
(***************************************************************************)
VARIABLES
    src,               \* source database
    sys_tables,        \* the source catalog, in the order the source lists it
    dst,               \* destination database
    pc,                \* position of main(): "stage1".."stage5", "exit", "done"
    i,                 \* loop variable of the running retry loop
    bound,             \* local names of main() that have been assigned
    ex_raw_data,       \* the list raw_data of the latest call of extract
    extracted_data,
    transformed_data,
    success,
    exits,             \* exit codes passed to sys.exit in this run
    outcome,           \* per stage: "Pending", "Succeeded" or "Exhausted"
    completed,         \* the stages that succeeded, in the order they did
    calls,             \* calls of the stage function in the latest stage entered
    fails,             \* failed attempts in the latest stage entered
    startedAfter,      \* stages with an attempt started after a stage was exhausted
    invokedAfter,      \* stage functions called after a stage was exhausted
    written,           \* destination tables written in this run
    loaded,            \* table names loaded by the latest load attempt, in order
    failed,            \* some attempt of this run raised
    handles,           \* engines created in this run and not disposed of
    slept,             \* seconds slept in the latest stage entered
    run                \* number of the current run of main()

varsEtl == << src, sys_tables, dst, pc, i, bound, ex_raw_data, extracted_data,
              transformed_data, success, exits, outcome, completed, calls,
              fails, startedAfter, invokedAfter, written, loaded, failed,
              handles, slept, run >>

(***************************************************************************)
(* State of one evaluation of the join of merge_tables on given tables.    *)
(***************************************************************************)
VARIABLES
    mg_product,        \* the stg_DimProduct snapshot read
    mg_subcategory,    \* the stg_DimProductSubcategory snapshot read
    mg_category,       \* the stg_DimProductCategory snapshot read
    mg_merged,         \* the merged DataFrame
    mg_done            \* the join has been evaluated

varsMerge == << mg_product, mg_subcategory, mg_category, mg_merged, mg_done >>

(***************************************************************************)
(* src/airflow/dags/product.py: one run of product_ETL_dag, followed on    *)
(* two destinations (worlds) that share the source and the schedule and    *)
(* differ only in what the destination held before the run.                *)
(***************************************************************************)
VARIABLES
    d_src,             \* source database
    d_sys_tables,      \* the source catalog
    d_dst,             \* per world, the destination database
    d_dst0,            \* per world, the destination as the run found it
    task,              \* per world and task: "none", "running", "success", "failed"
    conns,             \* conn_ids registered in the Airflow metadata database
    tbl_dict,          \* return value of extract (XCom)
    table_names        \* return value of prepare_transform (XCom)

varsDag == << d_src, d_sys_tables, d_dst, d_dst0, task, conns, tbl_dict,
             table_names >>

(***************************************************************************)
(* State of one call of tf_product, tf_product_category or                 *)
(* tf_product_subcategory, followed statement by statement.                *)
(***************************************************************************)
VARIABLES
    tf_table,          \* the table the called transform is written for
    tf_in,             \* the DataFrame passed in
    tf_df,             \* the local df
    tf_projected,      \* df as the projection left it
    tf_pc,             \* the statement to run next, "return" or "raised"
    tf_steps           \* the statements run so far, in order

varsTf == << tf_table, tf_in, tf_df, tf_projected, tf_pc, tf_steps >>

notEtl == << varsMerge, varsDag, varsTf >>

notMerge == << varsEtl, varsDag, varsTf >>

notDag == << varsEtl, varsMerge, varsTf >>

notTf == << varsEtl, varsMerge, varsDag >>

vars == << varsEtl, varsMerge, varsDag, varsTf >>

Worlds == {1, 2}

Tasks == { "init_src_conn", "init_dst_conn", "extract", "prepare_transform",
           "transform_product", "transform_product_subcategory",
           "transform_product_category", "merge_tables" }

DagIdle ==
    /\ d_src = << >>
    /\ d_sys_tables = << >>
    /\ d_dst = [w \in Worlds |-> << >>]
    /\ d_dst0 = [w \in Worlds |-> << >>]
    /\ task = [w \in Worlds |-> [t \in Tasks |-> "idle"]]
    /\ conns = {}
    /\ tbl_dict = << >>
    /\ table_names = << >>

NoFrame == DataFrame(<< >>, << >>)

TfIdle ==
    /\ tf_table = ""
    /\ tf_in = NoFrame
    /\ tf_df = NoFrame
    /\ tf_projected = NoFrame
    /\ tf_pc = "idle"
    /\ tf_steps = << >>

MergeIdle ==
    /\ mg_product = NoFrame
    /\ mg_subcategory = NoFrame
    /\ mg_category = NoFrame
    /\ mg_merged = NoFrame
    /\ mg_done = FALSE

max_attempts == 100

\* time.sleep(3) in the except branch of every stage
sleep_seconds == 3

\* range(1, max_attempts)
AttemptRange == 1..(max_attempts - 1)

Stages == 1..5

\* a main() that starts over with stage 1 after stage 5
StagePc_loop(k) == IF k = 6 THEN "stage1"
              ELSE IF k = 1 THEN "stage1" ELSE IF k = 2 THEN "stage2"
              ELSE IF k = 3 THEN "stage3" ELSE IF k = 4 THEN "stage4"
              ELSE "stage5"

StagePc(k) == IF k = 6 THEN "exit"
              ELSE IF k = 1 THEN "stage1" ELSE IF k = 2 THEN "stage2"
              ELSE IF k = 3 THEN "stage3" ELSE IF k = 4 THEN "stage4"
              ELSE "stage5"

\* a catalog query without the IN (...) filter
discover_unfiltered(catalog) == catalog

\* pd.read_sql_query(catalog query).to_dict()["table_name"]
discover(catalog) == SelectSeq(catalog, LAMBDA n : n \in AllowList)

\* extract(src_conn) raises: failAt = 0 is the catalog query raising, failAt = k
\* the read of the k-th table raising, any other value no transient error; the
\* read of a table the source does not hold raises as well
extract_raises(db, catalog, failAt) ==
    LET src_tables == discover(catalog)
    IN \/ failAt \in 0..Len(src_tables)
       \/ \E k \in 1..Len(src_tables) : src_tables[k] \notin DOMAIN db

\* a raw_data that is not made anew by the call (a module-level list)
new_raw_data_kept(prev) == prev

\* raw_data = [] : every call of extract starts with a list of its own
new_raw_data(prev) == << >>

\* the entries the for loop of extract appends for the first n listed tables
reads(db, src_tables, n) ==
    [k \in 1..n |-> << db[src_tables[k]], src_tables[k] >>]

\* the number of tables a call of extract has appended when it ends: all of
\* them if it returns, those before the read that raised if it raises
appended(db, catalog, failAt) ==
    LET src_tables == discover(catalog)
        missing == {k \in 1..Len(src_tables) : src_tables[k] \notin DOMAIN db}
        stops == (IF failAt \in 0..Len(src_tables) THEN {failAt} ELSE {})
                     \cup missing
    IN IF stops = {} THEN Len(src_tables)
       ELSE IF 0 \in stops THEN 0
       ELSE (CHOOSE k \in stops : \A j \in stops : k <= j) - 1

\* the list extract(src_conn) returns when it does not raise
extract(db, catalog) ==
    LET src_tables == discover(catalog)
    IN [k \in 1..Len(src_tables) |-> << db[src_tables[k]], src_tables[k] >>]

tf_one(df, table_name) ==
    LET a == IF table_name = "DimProduct" THEN tf_product(df) ELSE df
        b == IF IsErr(a) THEN a
             ELSE IF table_name = "DimProductCategory"
                  THEN tf_product_category(a) ELSE a
    IN IF IsErr(b) THEN b
       ELSE IF table_name = "DimProductSubcategory"
            THEN tf_product_subcategory(b) ELSE b

\* transform(raw_data) raises when the transform of one table does
transform_raises(raw_data) ==
    \E k \in 1..Len(raw_data) : IsErr(tf_one(raw_data[k][1], raw_data[k][2]))

\* the list transform(raw_data) returns when it does not raise
transform(raw_data) ==
    [k \in 1..Len(raw_data) |->
        << tf_one(raw_data[k][1], raw_data[k][2]), raw_data[k][2] >>]

\* a naming that writes every table under one name
StgName_same(table_name) == "stg_table"

StgName(table_name) == "stg_" \o table_name

\* load(engine, df, table_name)
load(db, df, table_name) == to_sql_replace(db, StgName(table_name), df)

\* the destination after load() of the first n entries of tf_data
RECURSIVE LoadFirst(_, _, _)
LoadFirst(db, tf_data, n) ==
    IF n = 0 THEN db
    ELSE load(LoadFirst(db, tf_data, n - 1), tf_data[n][1], tf_data[n][2])

Names(data, n) == [k \in 1..n |-> data[k][2]]

\* the exit code with the two branches swapped
ExitCode_swapped(ok) == IF ok THEN 1 ELSE 0

\* exit_code = 0 if success else 1
ExitCode(ok) == IF ok THEN 0 ELSE 1

(***************************************************************************)
(* Source contents the runs are checked on.                                *)
(***************************************************************************)
ProductSourceCols == ProductRetain \o << "SpanishProductName" >>

CategorySourceCols == CategoryRetain \o << "SpanishProductCategoryName" >>

SubcategorySourceCols == SubcategoryRetain \o << "SpanishProductSubcategoryName" >>

ProductRow(key, subcat, amount, text) ==
    [c \in Range(ProductSourceCols) |->
        IF c = "ProductKey" THEN IntV(key)
        ELSE IF c = "ProductSubcategoryKey" THEN subcat
        ELSE IF c \in {"StandardCost", "ListPrice", "DealerPrice", "Weight"}
             THEN amount
        ELSE text]

SubcategoryRow(key, catkey) ==
    [c \in Range(SubcategorySourceCols) |->
        IF c = "ProductSubcategoryKey" THEN key
        ELSE IF c = "ProductCategoryKey" THEN catkey
        ELSE StrV("sub")]

CategoryRow(key) ==
    [c \in Range(CategorySourceCols) |->
        IF c = "ProductCategoryKey" THEN key ELSE StrV("cat")]

SourceVariants == {1, 2}

\* source contents whose DimProduct holds, after a clean row, a row with text
\* that is no number in ProductSubcategoryKey (3) or in the price columns (4)
BadVariants == {3, 4}

SourceTable(name, v) ==
    IF name = "DimProduct"
    THEN DataFrame(ProductSourceCols,
            IF v = 1 THEN << ProductRow(1, Null, Null, Null) >>
            ELSE IF v = 3
            THEN << ProductRow(1, IntV(1), DecV(1050), StrV("x")),
                    ProductRow(2, StrV("abc"), DecV(5), Null) >>
            ELSE IF v = 4
            THEN << ProductRow(1, IntV(1), DecV(1050), StrV("x")),
                    ProductRow(2, IntV(2), StrV("n/a"), Null) >>
            ELSE << ProductRow(1, IntV(1), DecV(1050), StrV("x")),
                    ProductRow(2, IntV(2), DecV(5), Null) >>)
    ELSE IF name = "DimProductSubcategory"
    THEN DataFrame(SubcategorySourceCols,
            IF v = 1 THEN << >> ELSE << SubcategoryRow(IntV(1), IntV(1)) >>)
    ELSE IF name = "DimProductCategory"
    THEN DataFrame(CategorySourceCols,
            IF v = 1 THEN << >> ELSE << CategoryRow(IntV(1)) >>)
    ELSE DataFrame(<< "CustomerKey" >>, << >>)

\* a source holding the tables D of the allow-list and one unrelated table
SourceDB(D, v) == [n \in D \cup {"DimCustomer"} |-> SourceTable(n, v)]

Perms(S) == {s \in [1..Cardinality(S) -> S] : Range(s) = S}

\* the destination as a complete run of the script on source db leaves it
FullRun(db, catalog) ==
    LET td == transform(extract(db, catalog))
    IN LoadFirst(EmptyDB, td, Len(td))

PriorDBs ==
    { EmptyDB,
      FullRun(SourceDB(AllowList, 2),
              << "DimProduct", "DimProductSubcategory", "DimProductCategory" >>) }

\* number of consecutive runs of the script
MaxRuns == 2

StartOfRun ==
    /\ pc = "stage1"
    /\ i = 1
    /\ bound = {}
    /\ ex_raw_data = << >>
    /\ extracted_data = << >>
    /\ transformed_data = << >>
    /\ success = FALSE
    /\ exits = << >>
    /\ outcome = [k \in Stages |-> "Pending"]
    /\ completed = << >>
    /\ calls = 0
    /\ fails = 0
    /\ startedAfter = {}
    /\ invokedAfter = {}
    /\ written = {}
    /\ loaded = << >>
    /\ failed = FALSE
    /\ handles = {}
    /\ slept = 0

Init ==
    /\ \E D \in SUBSET AllowList, v \in SourceVariants \cup BadVariants :
          /\ src = SourceDB(D, v)
          /\ \E order \in Perms(D) : sys_tables = << "DimCustomer" >> \o order
    /\ dst \in PriorDBs
    /\ run = 1
    /\ StartOfRun
    /\ MergeIdle
    /\ DagIdle
    /\ TfIdle

SomeExhausted == \E k \in Stages : outcome[k] = "Exhausted"

\* one pass of the body of the retry loop of stage k: called tells whether
\* the stage function was called, ok whether the try block completed
Attempt(k, called, ok) ==
    /\ pc = StagePc(k)
    /\ i \in AttemptRange
    /\ startedAfter' = IF SomeExhausted THEN startedAfter \cup {k} ELSE startedAfter
    /\ invokedAfter' = IF SomeExhausted /\ called
                       THEN invokedAfter \cup {k} ELSE invokedAfter
    /\ calls' = (IF i = 1 THEN 0 ELSE calls) + (IF called THEN 1 ELSE 0)
    /\ fails' = (IF i = 1 THEN 0 ELSE fails) + (IF ok THEN 0 ELSE 1)
    /\ failed' = (failed \/ ~ok)
    /\ slept' = (IF i = 1 THEN 0 ELSE slept) + (IF ok THEN 0 ELSE sleep_seconds)
    /\ IF ok
       THEN /\ outcome' = [outcome EXCEPT ![k] = "Succeeded"]
            /\ completed' = Append(completed, k)
            /\ pc' = StagePc(k + 1)
            /\ i' = 1
       ELSE IF i + 1 \in AttemptRange
       THEN /\ i' = i + 1
            /\ UNCHANGED << outcome, completed, pc >>
       ELSE /\ outcome' = [outcome EXCEPT ![k] = "Exhausted"]
            /\ pc' = StagePc(k + 1)
            /\ i' = 1
            /\ UNCHANGED completed

\* stage 1/5: src_conn = init_src_conn()
Stage1 ==
    /\ \E ok \in BOOLEAN :
          /\ Attempt(1, TRUE, ok)
          /\ bound' = IF ok THEN bound \cup {"src_conn"} ELSE bound
          /\ handles' = IF ok THEN handles \cup {"src_engine"} ELSE handles
    /\ UNCHANGED << src, sys_tables, dst, ex_raw_data, extracted_data,
                    transformed_data, success, exits, written, loaded, run >>
    /\ UNCHANGED notEtl

\* stage 2/5: extracted_data = extract(src_conn)
Stage2 ==
    /\ IF "src_conn" \notin bound
       THEN /\ Attempt(2, FALSE, FALSE)
            /\ UNCHANGED << bound, ex_raw_data, extracted_data >>
       ELSE \E failAt \in 0..(Len(discover(sys_tables)) + 1) :
              LET raises == extract_raises(src, sys_tables, failAt)
              IN /\ Attempt(2, TRUE, ~raises)
                 /\ ex_raw_data' = new_raw_data(ex_raw_data)
                        \o reads(src, discover(sys_tables),
                                 appended(src, sys_tables, failAt))
                 /\ IF raises
                    THEN UNCHANGED << bound, extracted_data >>
                    ELSE /\ extracted_data' = ex_raw_data'
                         /\ bound' = bound \cup {"extracted_data"}
    /\ UNCHANGED << src, sys_tables, dst, transformed_data, success, exits,
                    written, loaded, handles, run >>
    /\ UNCHANGED notEtl

\* stage 3/5: transformed_data = transform(extracted_data)
Stage3 ==
    /\ IF "extracted_data" \notin bound
       THEN /\ Attempt(3, FALSE, FALSE)
            /\ UNCHANGED << bound, transformed_data >>
       ELSE \E transient \in BOOLEAN :
              LET raises == transient \/ transform_raises(extracted_data)
              IN /\ Attempt(3, TRUE, ~raises)
                 /\ IF raises
                    THEN UNCHANGED << bound, transformed_data >>
                    ELSE /\ transformed_data' = transform(extracted_data)
                         /\ bound' = bound \cup {"transformed_data"}
    /\ UNCHANGED << src, sys_tables, dst, ex_raw_data, extracted_data, success,
                    exits, written, loaded, handles, run >>
    /\ UNCHANGED notEtl

\* stage 4/5: dst_conn = init_dst_conn()
Stage4 ==
    /\ \E ok \in BOOLEAN :
          /\ Attempt(4, TRUE, ok)
          /\ bound' = IF ok THEN bound \cup {"dst_conn"} ELSE bound
          /\ handles' = IF ok THEN handles \cup {"dst_engine"} ELSE handles
    /\ UNCHANGED << src, sys_tables, dst, ex_raw_data, extracted_data,
                    transformed_data, success, exits, written, loaded, run >>
    /\ UNCHANGED notEtl

\* stage 5/5: for df, table_name in transformed_data: load(dst_conn, df, table_name)
Stage5 ==
    /\ IF "transformed_data" \notin bound
       THEN /\ Attempt(5, FALSE, FALSE)
            /\ loaded' = << >>
            /\ UNCHANGED << dst, written, success >>
       ELSE IF Len(transformed_data) = 0
       THEN /\ Attempt(5, FALSE, TRUE)
            /\ loaded' = << >>
            /\ success' = TRUE
            /\ UNCHANGED << dst, written >>
       ELSE IF "dst_conn" \notin bound
       THEN /\ Attempt(5, FALSE, FALSE)
            /\ loaded' = << >>
            /\ UNCHANGED << dst, written, success >>
       ELSE \E failAt \in 1..(Len(transformed_data) + 1) :
              /\ Attempt(5, TRUE, failAt = Len(transformed_data) + 1)
              /\ dst' = LoadFirst(dst, transformed_data, failAt - 1)
              /\ loaded' = Names(transformed_data, failAt - 1)
              /\ written' = written \cup
                     {StgName(transformed_data[k][2]) : k \in 1..(failAt - 1)}
              /\ success' = (success \/ failAt = Len(transformed_data) + 1)
    /\ UNCHANGED << src, sys_tables, bound, ex_raw_data, extracted_data,
                    transformed_data, exits, handles, run >>
    /\ UNCHANGED notEtl

\* exit_code = 0 if success else 1; sys.exit(exit_code)
Exit ==
    /\ pc = "exit"
    /\ exits' = Append(exits, ExitCode(success))
    /\ pc' = "done"
    /\ UNCHANGED << src, sys_tables, dst, i, bound, ex_raw_data, extracted_data,
                    transformed_data, success, outcome, completed, calls,
                    fails, startedAfter, invokedAfter, written, loaded, failed,
                    handles, slept, run >>
    /\ UNCHANGED notEtl

\* the script is started again on the same source and destination
Rerun ==
    /\ pc = "done"
    /\ run < MaxRuns
    /\ run' = run + 1
    /\ pc' = "stage1"
    /\ i' = 1
    /\ bound' = {}
    /\ ex_raw_data' = << >>
    /\ extracted_data' = << >>
    /\ transformed_data' = << >>
    /\ success' = FALSE
    /\ exits' = << >>
    /\ outcome' = [k \in Stages |-> "Pending"]
    /\ completed' = << >>
    /\ calls' = 0
    /\ fails' = 0
    /\ startedAfter' = {}
    /\ invokedAfter' = {}
    /\ written' = {}
    /\ loaded' = << >>
    /\ failed' = FALSE
    /\ handles' = {}
    /\ slept' = 0
    /\ UNCHANGED << src, sys_tables, dst >>
    /\ UNCHANGED notEtl

Next == Stage1 \/ Stage2 \/ Stage3 \/ Stage4 \/ Stage5 \/ Exit \/ Rerun

Spec == Init /\ [][Next]_vars

(***************************************************************************)
(* Properties of main() of etl.py                                          *)
(***************************************************************************)
\* the retry loop of stage k has just ended; calls and fails are its counts
AtEndOf(k) == pc = StagePc(k + 1) /\ i = 1

AllSucceeded == \A k \in Stages : outcome[k] = "Succeeded"

\* the allow-listed tables the source holds
D == DOMAIN src \cap AllowList

\* C1: once a stage has used up its retry budget the pipeline aborts: no
\* attempt of a later stage is started and no later stage function is called.
C1_AbortAfterExhaustion == startedAfter = {} /\ invokedAfter = {}

\* C2: a stage whose function is called and fails on every attempt is called
\* exactly max_attempts times before the stage ends as Exhausted.
C2_ExhaustedAfterMaxAttempts ==
    \A k \in Stages :
        AtEndOf(k) /\ outcome[k] = "Exhausted" /\ calls = fails
            => calls = max_attempts

\* C3: for every k < max_attempts, a stage whose function fails on its first k
\* attempts and succeeds on the next one is not given up after those k
\* failures, succeeds after exactly k + 1 calls, and main() moves on to the
\* next stage.
C3_SucceedsAfterKFailures ==
    \A k \in Stages :
        AtEndOf(k) =>
            /\ (calls = fails /\ fails < max_attempts => outcome[k] # "Exhausted")
            /\ (outcome[k] = "Succeeded" /\ calls > 0 => calls = fails + 1)
            /\ (outcome[k] = "Succeeded" => completed[Len(completed)] = k)

\* C4: main() exits with code 0 iff every one of the five stages succeeded,
\* with code 1 if a stage was exhausted, and with exactly one exit code.
C4_ExitCodeIffAllSucceeded ==
    pc = "done" =>
        /\ Len(exits) = 1
        /\ (exits[1] = 0 <=> AllSucceeded)
        /\ (SomeExhausted => exits[1] = 1)

\* the name merge_tables of the DAG writes the merged table under
MergedName == "prd_DimProductCategory"

Increasing(s) == \A a, b \in 1..Len(s) : a < b => s[a] < s[b]

\* C5 as stated: a run of main() that exits with code 0 completed the stages
\* connect-source, extract, transform, connect-destination, per-table load in
\* this order and has then written the merged table.
C5_MergedTableWritten ==
    pc = "done" /\ exits = << 0 >> =>
        /\ completed = << 1, 2, 3, 4, 5 >>
        /\ MergedName \in written

\* C5 amended: a run of main() that exits with code 0 completed
\* connect-source, extract, transform and load in this order, with
\* connect-destination completed before the load whenever a table was loaded;
\* the last load attempt wrote every transformed table in list order, and
\* main() merges nothing and writes no merged table.
C5_SuccessOrderWithoutMerge ==
    pc = "done" /\ exits = << 0 >> =>
        /\ \A k \in {1, 2, 3, 5} : outcome[k] = "Succeeded"
        /\ Increasing(completed)
        /\ (loaded # << >> => completed = << 1, 2, 3, 4, 5 >>)
        /\ loaded = Names(transformed_data, Len(transformed_data))
        /\ MergedName \notin written
        /\ \A n \in written : \E t \in AllowList : n = StgName(t)

C5_Witness == pc = "done" /\ exits = << 0 >> /\ Len(loaded) = 3

\* C6: for every subset D of the allow-list held by the source, a run in which
\* no attempt fails extracts, transforms and loads exactly the tables of D,
\* writes stg_<name> for the names of D and no other table, and exits with 0.
C6_ExactlyTheTablesOfD ==
    pc = "done" /\ ~failed =>
        /\ exits = << 0 >>
        /\ Range(Names(extracted_data, Len(extracted_data))) = D
        /\ Range(Names(transformed_data, Len(transformed_data))) = D
        /\ written = {StgName(n) : n \in D}
        /\ \A n \in D : dst[StgName(n)] = tf_one(src[n], n)

C6_Witness ==
    pc = "done" /\ ~failed /\ D = {"DimProductCategory"} /\ written # {}

\* C8: load is a destructive replace: whatever the table held before, once
\* load has written table T in this run, stg_T holds exactly the snapshot
\* loaded, also after the re-loads of retries and of further runs.
C8_LoadReplaces ==
    \A k \in 1..Len(transformed_data) :
        StgName(transformed_data[k][2]) \in written
            => dst[StgName(transformed_data[k][2])] = transformed_data[k][1]

C8_Witness ==
    run = 2 /\ pc = "exit" /\ success /\ fails >= 1 /\ Len(loaded) = 3

\* the columns tf_product casts
CoercedCols == {"ProductSubcategoryKey", "StandardCost", "ListPrice"}

\* a cell holding text that is no number
NonNumeric(v) == IsStr(v) /\ ParseNat(v.s) < 0

\* extract succeeded and the extracted DimProduct holds a row with text that
\* is no number in a column tf_product casts
BadProductExtracted ==
    /\ "extracted_data" \in bound
    /\ \E k \in 1..Len(extracted_data) :
          /\ extracted_data[k][2] = "DimProduct"
          /\ \E r \in Range(extracted_data[k][1].rows), c \in CoercedCols :
                NonNumeric(r[c])

\* C12: when the extracted DimProduct holds a row with non-numeric text in a
\* cast column, every call of transform raises and binds nothing (no partial
\* list, no partial table), the transform stage ends Exhausted after every
\* attempt of its retry loop (at most max_attempts) has called transform and
\* failed, no destination table is written in this run, and main() exits
\* with code 1.
C12_NonNumericExhaustsTransform ==
    BadProductExtracted =>
        /\ transform_raises(extracted_data)
        /\ "transformed_data" \notin bound
        /\ transformed_data = << >>
        /\ outcome[3] # "Succeeded"
        /\ (AtEndOf(3) => /\ outcome[3] = "Exhausted"
                          /\ calls = fails
                          /\ fails = Cardinality(AttemptRange)
                          /\ fails <= max_attempts)
        /\ written = {}
        /\ loaded = << >>
        /\ ~success
        /\ (pc = "done" => exits = << 1 >>)

C12_Witness ==
    /\ BadProductExtracted
    /\ pc = "done"
    /\ exits = << 1 >>
    /\ outcome[3] = "Exhausted"
    /\ outcome[4] = "Succeeded"
    /\ Len(extracted_data) = 3

\* no entry of the sequence s occurs twice
NoDuplicate(s) == \A a, b \in 1..Len(s) : a # b => s[a] # s[b]

\* C22: once extract has succeeded, after whatever failed attempts, also ones
\* that raised after some tables were read, the list handed to transform
\* holds each discovered table exactly once, in catalog order and with the
\* source's contents, and no table is loaded twice by a load attempt.
C22_NoLeftoverOfFailedExtract ==
    "extracted_data" \in bound =>
        /\ Names(extracted_data, Len(extracted_data)) = discover(sys_tables)
        /\ NoDuplicate(Names(extracted_data, Len(extracted_data)))
        /\ \A k \in 1..Len(extracted_data) :
              extracted_data[k][1] = src[extracted_data[k][2]]
        /\ ("transformed_data" \in bound =>
               Names(transformed_data, Len(transformed_data))
                   = discover(sys_tables))
        /\ NoDuplicate(loaded)
        /\ written \subseteq {StgName(n) : n \in Range(discover(sys_tables))}

\* extract has just succeeded at its third attempt or later, on a source
\* with the three tables
C22_Witness ==
    /\ AtEndOf(2)
    /\ outcome[2] = "Succeeded"
    /\ fails >= 2
    /\ Len(extracted_data) = 3

\* C15: every engine main() created (source, destination) has been released
\* when the process has exited, on every path.
C15_HandlesReleasedBeforeExit == pc = "done" => handles = {}

\* the load stage is over, Exhausted, and every attempt of it called load
LoadGivenUp ==
    /\ pc \in {"exit", "done"}
    /\ outcome[5] = "Exhausted"
    /\ calls > 0
    /\ calls = fails

\* C17: when the load stage is exhausted with the write of the i-th table
\* failing (i the furthest position an attempt reached, so also when every
\* attempt fails at the same i), the tables written in this run are exactly
\* the i - 1 tables before it in the list; each of them holds exactly the
\* DataFrame loaded, once, though every retry wrote it again; the i-th and
\* the later tables were not written in this run; and the exit code is 1.
C17_PrefixLoadedOnExhaustion ==
    LoadGivenUp =>
        /\ \E m \in 0..(Len(transformed_data) - 1) :
              /\ written = {StgName(transformed_data[k][2]) : k \in 1..m}
              /\ Len(loaded) <= m
              /\ \A k \in 1..m :
                    dst[StgName(transformed_data[k][2])] = transformed_data[k][1]
              /\ \A k \in (m + 1)..Len(transformed_data) :
                    StgName(transformed_data[k][2]) \notin written
        /\ loaded = Names(transformed_data, Len(loaded))
        /\ ~success
        /\ (pc = "done" => exits = << 1 >>)

C17_Witness ==
    /\ LoadGivenUp
    /\ pc = "done"
    /\ Len(transformed_data) = 3
    /\ Len(loaded) = 1
    /\ written = {StgName(loaded[1])}
    /\ "stg_DimProductCategory" \in DOMAIN dst \ written
    /\ Len(dst[StgName(loaded[1])].rows) >= 1

(***************************************************************************)
(* One run of main() that is not stopped from outside: the interpreter     *)
(* always runs the next statement, and every call of a stage function      *)
(* returns or raises.                                                      *)
(***************************************************************************)
\* the attempts and the exit main() can still make from where it is
Rank ==
    IF pc = "done" THEN 0
    ELSE IF pc = "exit" THEN 1
    ELSE LET k == CHOOSE n \in Stages : pc = StagePc(n)
         IN 1 + (5 - k) * Cardinality(AttemptRange) + (max_attempts - i)

TermNext == Stage1 \/ Stage2 \/ Stage3 \/ Stage4 \/ Stage5 \/ Exit

\* a first run on an empty destination, on a source with two listed tables
\* or with none
TermInit ==
    /\ Init
    /\ dst = EmptyDB
    /\ \/ /\ src = SourceDB({"DimProductCategory", "DimProductSubcategory"}, 2)
          /\ sys_tables = << "DimCustomer", "DimProductCategory",
                             "DimProductSubcategory" >>
       \/ src = SourceDB({}, 2)

TermSpec == TermInit /\ [][TermNext]_vars /\ WF_vars(TermNext)

\* C20: whatever attempts succeed or fail, no stage makes more than
\* max_attempts attempts, every step of main() brings it closer to its end,
\* at most 5 * max_attempts attempts away at the start, and main() reaches
\* sys.exit: it does not retry for ever and does not stop between two stages.
C20_MainTerminates ==
    /\ [](i \in AttemptRange /\ fails < max_attempts /\ calls < max_attempts)
    /\ [](Rank \in 0..(1 + 5 * max_attempts))
    /\ [][Rank' < Rank]_vars
    /\ <>(pc = "done" /\ Len(exits) = 1)

\* the longest run: every stage used up its attempts
C20_Witness ==
    /\ pc = "done"
    /\ Len(exits) = 1
    /\ \A k \in Stages : outcome[k] = "Exhausted"
    /\ fails = Cardinality(AttemptRange)

\* the attempts stage k made, counted when its retry loop has ended
AttemptsOf(k) == fails + (IF outcome[k] = "Succeeded" THEN 1 ELSE 0)

\* C18: when the retry loop of a stage has ended, the stage has slept
\* sleep_seconds once between each two consecutive attempts and at no other
\* time: not after a successful attempt and not after the last failed attempt
\* of an exhausted stage.
C18_DelayOnlyBetweenAttempts ==
    \A k \in Stages :
        AtEndOf(k) => slept = sleep_seconds * (AttemptsOf(k) - 1)

(***************************************************************************)
(* The join of merge_tables on all small staged tables.                    *)
(***************************************************************************)
\* most rows of a table
MaxRows == 2

\* largest key value
MaxKey == 2

EtlIdle ==
    /\ src = EmptyDB
    /\ sys_tables = << >>
    /\ dst = EmptyDB
    /\ run = 0
    /\ pc = "idle"
    /\ i = 1
    /\ bound = {}
    /\ ex_raw_data = << >>
    /\ extracted_data = << >>
    /\ transformed_data = << >>
    /\ success = FALSE
    /\ exits = << >>
    /\ outcome = [k \in Stages |-> "Pending"]
    /\ completed = << >>
    /\ calls = 0
    /\ fails = 0
    /\ startedAfter = {}
    /\ invokedAfter = {}
    /\ written = {}
    /\ loaded = << >>
    /\ failed = FALSE
    /\ handles = {}
    /\ slept = 0

\* source tables of at most MaxRows rows; the k-th product has ProductKey k
ProductTables ==
    UNION { { DataFrame(ProductSourceCols,
                [k \in 1..n |-> ProductRow(k, f[k], DecV(150), StrV("x"))])
              : f \in [1..n -> {Null} \cup {IntV(a) : a \in 1..MaxKey}] }
            : n \in 0..MaxRows }

SubcategoryTables ==
    UNION { { DataFrame(SubcategorySourceCols,
                [k \in 1..n |-> SubcategoryRow(IntV(f[k][1]), IntV(f[k][2]))])
              : f \in [1..n -> (1..MaxKey) \X (1..MaxKey)] }
            : n \in 0..MaxRows }

CategoryTables ==
    UNION { { DataFrame(CategorySourceCols,
                [k \in 1..n |-> CategoryRow(IntV(f[k]))])
              : f \in [1..n -> 1..MaxKey] }
            : n \in 0..MaxRows }

MergeInit ==
    /\ mg_product \in {tf_product(t) : t \in ProductTables}
    /\ mg_subcategory \in {tf_product_subcategory(t) : t \in SubcategoryTables}
    /\ mg_category \in {tf_product_category(t) : t \in CategoryTables}
    /\ mg_merged = NoFrame
    /\ mg_done = FALSE
    /\ EtlIdle
    /\ DagIdle
    /\ TfIdle

\* merged = p.merge(ps, on=...).merge(pc, on=...)
Merge ==
    /\ ~mg_done
    /\ mg_merged' = merge_tables(mg_product, mg_subcategory, mg_category)
    /\ mg_done' = TRUE
    /\ UNCHANGED << mg_product, mg_subcategory, mg_category >>
    /\ UNCHANGED notMerge

MergeNext == Merge

MergeSpec == MergeInit /\ [][MergeNext]_vars

Col(df, c) == [k \in 1..Len(df.rows) |-> df.rows[k][c]]

\* no two rows of df hold the same cell in column c
UniqueKey(df, c) ==
    \A a, b \in 1..Len(df.rows) : a # b => df.rows[a][c] # df.rows[b][c]

\* C9 as stated: for all snapshots the merged output has at most as many rows
\* as product.
C9_AtMostOneRowPerProduct ==
    mg_done => Len(mg_merged.rows) <= Len(mg_product.rows)

\* C9 amended: when no two subcategory rows share a ProductSubcategoryKey and
\* no two category rows share a ProductCategoryKey, the merged output has at
\* most one row per product row, so at most as many rows as product (the
\* product rows checked have distinct ProductKeys, so no ProductKey repeats
\* in the output).
C9_AtMostOneRowPerProductUniqueKeys ==
    mg_done /\ UniqueKey(mg_subcategory, "ProductSubcategoryKey")
            /\ UniqueKey(mg_category, "ProductCategoryKey")
        => /\ Len(mg_merged.rows) <= Len(mg_product.rows)
           /\ UniqueKey(mg_merged, "ProductKey")

C9_Witness ==
    /\ mg_done
    /\ UniqueKey(mg_subcategory, "ProductSubcategoryKey")
    /\ UniqueKey(mg_category, "ProductCategoryKey")
    /\ Len(mg_subcategory.rows) = 2
    /\ Len(mg_product.rows) = 2
    /\ Len(mg_merged.rows) = 1

\* a product row that has a subcategory row whose category row exists
Matched(r) ==
    \E a \in 1..Len(mg_subcategory.rows), b \in 1..Len(mg_category.rows) :
        /\ mg_subcategory.rows[a]["ProductSubcategoryKey"]
               = r["ProductSubcategoryKey"]
        /\ mg_category.rows[b]["ProductCategoryKey"]
               = mg_subcategory.rows[a]["ProductCategoryKey"]

\* C10: every merged row has a ProductKey of product, a ProductSubcategoryKey
\* of subcategory and a ProductCategoryKey of category, and a product row
\* without a matching subcategory row, or whose subcategory has no matching
\* category row, is not in the output.
C10_InnerJoinKeysExist ==
    mg_done =>
        /\ \A m \in Range(mg_merged.rows) :
              /\ m["ProductKey"] \in Range(Col(mg_product, "ProductKey"))
              /\ m["ProductSubcategoryKey"]
                    \in Range(Col(mg_subcategory, "ProductSubcategoryKey"))
              /\ m["ProductCategoryKey"]
                    \in Range(Col(mg_category, "ProductCategoryKey"))
        /\ \A r \in Range(mg_product.rows) :
              ~Matched(r) =>
                  r["ProductKey"] \notin Range(Col(mg_merged, "ProductKey"))

C10_Witness ==
    /\ mg_done
    /\ Len(mg_merged.rows) >= 1
    /\ \E r \in Range(mg_product.rows) :
          /\ ~Matched(r)
          /\ r["ProductSubcategoryKey"]
                \in Range(Col(mg_subcategory, "ProductSubcategoryKey"))

(***************************************************************************)
(* The three per-table transforms, statement by statement, on all small    *)
(* source tables.                                                          *)
(***************************************************************************)
Retain(t) == IF t = "DimProduct" THEN ProductRetain
             ELSE IF t = "DimProductCategory" THEN CategoryRetain
             ELSE SubcategoryRetain

Renames(t) == IF t = "DimProduct" THEN ProductRename
              ELSE IF t = "DimProductCategory" THEN CategoryRename
              ELSE SubcategoryRename

\* DimProduct tables of at most MaxRows rows with null, numeric and
\* non-numeric cells, and one table without the retained columns
TfProductTables ==
    UNION { { DataFrame(ProductSourceCols,
                [k \in 1..n |-> ProductRow(k, f[k][1], f[k][2], f[k][3])])
              : f \in [1..n -> {Null, IntV(1), StrV("abc")}
                               \X {Null, DecV(150), StrV("2")}
                               \X {Null, StrV("x")}] }
            : n \in 0..MaxRows }
    \cup { DataFrame(<< "ProductKey" >>, << >>) }

TfInputs(t) ==
    IF t = "DimProduct" THEN TfProductTables
    ELSE IF t = "DimProductCategory"
    THEN CategoryTables \cup { DataFrame(<< "ProductCategoryKey" >>, << >>) }
    ELSE SubcategoryTables \cup { DataFrame(<< "ProductSubcategoryKey" >>, << >>) }

TfInit ==
    /\ tf_table \in AllowList
    /\ tf_in \in TfInputs(tf_table)
    /\ tf_df = tf_in
    /\ tf_projected = NoFrame
    /\ tf_pc = "project"
    /\ tf_steps = << >>
    /\ EtlIdle
    /\ MergeIdle
    /\ DagIdle

\* df = df[[...]]
TfProject ==
    /\ tf_pc = "project"
    /\ LET d == project(tf_df, Retain(tf_table))
       IN IF IsErr(d)
          THEN /\ tf_pc' = "raised"
               /\ UNCHANGED << tf_df, tf_projected, tf_steps >>
          ELSE /\ tf_df' = d
               /\ tf_projected' = d
               /\ tf_steps' = Append(tf_steps, "project")
               /\ tf_pc' = IF tf_table = "DimProduct" THEN "fill" ELSE "rename"
    /\ UNCHANGED << tf_table, tf_in >>
    /\ UNCHANGED notTf

\* the df[col].fillna(default, inplace=True) statements of tf_product
TfFill ==
    /\ tf_pc = "fill"
    /\ tf_df' = fill(tf_df, ProductFill)
    /\ tf_steps' = Append(tf_steps, "fill")
    /\ tf_pc' = "rename"
    /\ UNCHANGED << tf_table, tf_in, tf_projected >>
    /\ UNCHANGED notTf

\* df = df.rename(columns={...})
TfRename ==
    /\ tf_pc = "rename"
    /\ tf_df' = rename(tf_df, Renames(tf_table))
    /\ tf_steps' = Append(tf_steps, "rename")
    /\ tf_pc' = IF tf_table = "DimProduct" THEN "cast_key" ELSE "return"
    /\ UNCHANGED << tf_table, tf_in, tf_projected >>
    /\ UNCHANGED notTf

\* the column the cast statement at pc assigns
CastCol(p) == IF p = "cast_key" THEN "ProductSubcategoryKey"
              ELSE IF p = "cast_cost" THEN "StandardCost" ELSE "ListPrice"

\* the three cast statements of tf_product, in their order
TfCast ==
    /\ tf_pc \in {"cast_key", "cast_cost", "cast_price"}
    /\ LET d == coerce(tf_df, CastCol(tf_pc),
                       IF tf_pc = "cast_key" THEN "int" ELSE "money")
       IN IF IsErr(d)
          THEN /\ tf_pc' = "raised"
               /\ UNCHANGED << tf_df, tf_steps >>
          ELSE /\ tf_df' = d
               /\ tf_steps' = Append(tf_steps, tf_pc)
               /\ tf_pc' = IF tf_pc = "cast_key" THEN "cast_cost"
                            ELSE IF tf_pc = "cast_cost" THEN "cast_price"
                            ELSE "return"
    /\ UNCHANGED << tf_table, tf_in, tf_projected >>
    /\ UNCHANGED notTf

TfNext == TfProject \/ TfFill \/ TfRename \/ TfCast

TfSpec == TfInit /\ [][TfNext]_vars

\* the statements after the rename have been reached
Renamed == tf_pc \in {"cast_key", "cast_cost", "cast_price", "return"}

\* rename.values() together with the retained names that are not renamed
ExpectedCols(t) ==
    {Renames(t)[c] : c \in DOMAIN Renames(t)}
        \cup (Range(Retain(t)) \ DOMAIN Renames(t))

\* C13: for each of the three per-table transforms and every input that
\* holds all retained columns, the projection does not raise, and after
\* projection and rename the columns of df, and of every row, are exactly
\* rename.values() together with the retained names that are not renamed:
\* no dropped column is left and no renamed column keeps its source name.
C13_OutputColumns ==
    /\ Range(Retain(tf_table)) \subseteq Range(tf_in.cols)
          => ~(tf_pc = "raised" /\ tf_steps = << >>)
    /\ Renamed =>
          /\ Range(tf_df.cols) = ExpectedCols(tf_table)
          /\ Len(tf_df.cols) = Cardinality(ExpectedCols(tf_table))
          /\ \A r \in Range(tf_df.rows) : DOMAIN r = ExpectedCols(tf_table)
          /\ (tf_pc = "return" => tf_df = tf_one(tf_in, tf_table))

C13_Witness ==
    /\ tf_pc = "return"
    /\ tf_table = "DimProductSubcategory"
    /\ Len(tf_df.rows) = 2
    /\ "SpanishProductSubcategoryName" \in Range(tf_in.cols)
    /\ "ProductSubcategoryName" \in Range(tf_df.cols)

ProductSteps ==
    << "project", "fill", "rename", "cast_key", "cast_cost", "cast_price" >>

IsPrefix(a, b) == Len(a) <= Len(b) /\ a = SubSeq(b, 1, Len(a))

\* C16: tf_product runs projection, null-fill, rename and the casts in this
\* order; each cast column (ProductSubcategoryKey, StandardCost, ListPrice)
\* has a default in the fill map, so when a cast statement is reached no
\* cell of a cast column is null; and in the DataFrame returned, a row whose
\* StandardCost or ListPrice was null holds "0.00" there and a row whose
\* ProductSubcategoryKey was null holds the integer 0.
C16_FillBeforeCast ==
    tf_table = "DimProduct" =>
        /\ CoercedCols \subseteq DOMAIN ProductFill
        /\ IsPrefix(tf_steps, ProductSteps)
        /\ (tf_pc = "return" => tf_steps = ProductSteps)
        /\ (tf_pc \in {"cast_key", "cast_cost", "cast_price"} =>
                /\ IsPrefix(<< "project", "fill", "rename" >>, tf_steps)
                /\ \A r \in Range(tf_df.rows) : ~IsNull(r[CastCol(tf_pc)]))
        /\ (tf_pc = "return" =>
                \A k \in 1..Len(tf_in.rows) :
                    /\ IsNull(tf_in.rows[k]["StandardCost"])
                          => tf_df.rows[k]["StandardCost"] = StrV("0.00")
                    /\ IsNull(tf_in.rows[k]["ListPrice"])
                          => tf_df.rows[k]["ListPrice"] = StrV("0.00")
                    /\ IsNull(tf_in.rows[k]["ProductSubcategoryKey"])
                          => tf_df.rows[k]["ProductSubcategoryKey"] = IntV(0))

C16_Witness ==
    /\ tf_table = "DimProduct"
    /\ tf_pc = "return"
    /\ \E k \in 1..Len(tf_in.rows) :
          /\ IsNull(tf_in.rows[k]["ProductSubcategoryKey"])
          /\ IsNull(tf_in.rows[k]["ListPrice"])
          /\ tf_df.rows[k]["ProductSubcategoryKey"] = IntV(0)

\* the null-fill of tf_product has just run
Filled == tf_table = "DimProduct" /\ tf_pc = "rename"

\* C19: the null-fill of tf_product is idempotent: filling the filled
\* DataFrame again changes no cell; and the fill leaves every cell that was
\* not null as it was, in every column.
C19_FillIdempotent ==
    Filled =>
        /\ fill(tf_df, ProductFill) = tf_df
        /\ tf_df.cols = tf_projected.cols
        /\ Len(tf_df.rows) = Len(tf_projected.rows)
        /\ \A k \in 1..Len(tf_df.rows), c \in Range(tf_df.cols) :
              ~IsNull(tf_projected.rows[k][c])
                  => tf_df.rows[k][c] = tf_projected.rows[k][c]

C19_Witness ==
    /\ Filled
    /\ \E a, b \in 1..Len(tf_df.rows) :
          /\ IsNull(tf_projected.rows[a]["StandardCost"])
          /\ tf_df.rows[a]["StandardCost"] = StrV("0")
          /\ tf_projected.rows[b]["StandardCost"] = DecV(150)

(***************************************************************************)
(* The tasks of product_ETL_dag.                                           *)
(***************************************************************************)
SrcName(table_name) == "src_" \o table_name

\* a graph in which merge_tables waits for transform_product alone
Upstream_loose(t) ==
    IF t = "extract" THEN {"init_src_conn", "init_dst_conn"}
    ELSE IF t = "prepare_transform" THEN {"extract"}
    ELSE IF t \in {"transform_product", "transform_product_subcategory",
                   "transform_product_category"} THEN {"prepare_transform"}
    ELSE IF t = "merge_tables" THEN {"transform_product"}
    ELSE {}

\* init_group >> extract_group >> transform_group >> load_group, and
\* table_names >> [the three transform tasks] inside transform_group
Upstream(t) ==
    IF t = "extract" THEN {"init_src_conn", "init_dst_conn"}
    ELSE IF t = "prepare_transform" THEN {"extract"}
    ELSE IF t \in {"transform_product", "transform_product_subcategory",
                   "transform_product_category"} THEN {"prepare_transform"}
    ELSE IF t = "merge_tables"
    THEN {"transform_product", "transform_product_subcategory",
          "transform_product_category"}
    ELSE {}

\* default trigger rule all_success
Ready(w, t) ==
    /\ task[w][t] = "none"
    /\ \A u \in Upstream(t) : task[w][u] = "success"

\* the destination after prepare_transform copied the first n listed tables
RECURSIVE CopyFirst(_, _, _, _)
CopyFirst(db, source, names, n) ==
    IF n = 0 THEN db
    ELSE to_sql_replace(CopyFirst(db, source, names, n - 1),
                        SrcName(names[n]), source[names[n]])

\* the destination after a run of the DAG from destination db in which every
\* task succeeds and the transform tasks run one after another, in the order
\* product, subcategory, category
DagRunFrom(db, source, names) ==
    LET a == CopyFirst(db, source, names, Len(names))
        b == to_sql_replace(a, "stg_DimProduct",
                            tf_one(a["src_DimProduct"], "DimProduct"))
        c == to_sql_replace(b, "stg_DimProductSubcategory",
                            tf_one(b["src_DimProductSubcategory"],
                                   "DimProductSubcategory"))
        d == to_sql_replace(c, "stg_DimProductCategory",
                            tf_one(c["src_DimProductCategory"],
                                   "DimProductCategory"))
    IN to_sql_replace(d, "prd_DimProductCategory",
          merge_tables(d["stg_DimProduct"], d["stg_DimProductSubcategory"],
                       d["stg_DimProductCategory"]))

\* a transform task: read src_<table>, transform, write stg_<table>
transform_task_raises(db, table_name) ==
    \/ SrcName(table_name) \notin DOMAIN db
    \/ IsErr(tf_one(db[SrcName(table_name)], table_name))

\* a transform_product that also empties stg_DimProductCategory if it is there
transform_task_clobber(db, table_name) ==
    LET out == to_sql_replace(db, StgName(table_name),
                              tf_one(db[SrcName(table_name)], table_name))
    IN IF table_name = "DimProduct" /\ "stg_DimProductCategory" \in DOMAIN out
       THEN to_sql_replace(out, "stg_DimProductCategory",
                DataFrame(out["stg_DimProductCategory"].cols, << >>))
       ELSE out

transform_task(db, table_name) ==
    to_sql_replace(db, StgName(table_name),
                   tf_one(db[SrcName(table_name)], table_name))

merge_tables_raises(db) ==
    \/ ~({StgName(n) : n \in AllowList} \subseteq DOMAIN db)
    \/ IsErr(merge_tables(db["stg_DimProduct"], db["stg_DimProductSubcategory"],
                          db["stg_DimProductCategory"]))

merge_tables_task(db) ==
    to_sql_replace(db, MergedName,
        merge_tables(db["stg_DimProduct"], db["stg_DimProductSubcategory"],
                     db["stg_DimProductCategory"]))

CatalogOrder == << "DimProduct", "DimProductCategory", "DimProductSubcategory" >>

\* the destination as a DAG run in which every task succeeds leaves it, on a
\* source that holds the three tables
DagFullRun(source) ==
    LET a == CopyFirst(EmptyDB, source, CatalogOrder, 3)
        b == transform_task(a, "DimProduct")
        c == transform_task(b, "DimProductSubcategory")
        d == transform_task(c, "DimProductCategory")
    IN merge_tables_task(d)

DagPriorDBs ==
    {EmptyDB} \cup {DagFullRun(SourceDB(AllowList, v)) : v \in SourceVariants}

DagInit ==
    /\ \E S \in SUBSET AllowList, v \in SourceVariants :
          /\ d_src = SourceDB(S, v)
          /\ d_sys_tables =
                << "DimCustomer" >> \o SelectSeq(CatalogOrder, LAMBDA n : n \in S)
    /\ d_dst \in [Worlds -> DagPriorDBs]
    /\ d_dst0 = d_dst
    /\ task = [w \in Worlds |-> [t \in Tasks |-> "none"]]
    /\ conns \in {{}, {"sqlserver", "postgres"}}
    /\ tbl_dict = << >>
    /\ table_names = << >>
    /\ EtlIdle
    /\ MergeIdle
    /\ TfIdle

\* the scheduler starts task t in the worlds where its upstream tasks succeeded
StartTask ==
    /\ \E t \in Tasks :
          /\ \E w \in Worlds : Ready(w, t)
          /\ task' = [w \in Worlds |->
                        IF Ready(w, t) THEN [task[w] EXCEPT ![t] = "running"]
                        ELSE task[w]]
    /\ UNCHANGED << d_src, d_sys_tables, d_dst0, d_dst, conns, tbl_dict, table_names >>
    /\ UNCHANGED notDag

Running(t) == \E w \in Worlds : task[w][t] = "running"

\* the states of task t after it ended, raising in the worlds of set bad
Ended(t, bad) ==
    [w \in Worlds |->
        IF task[w][t] = "running"
        THEN [task[w] EXCEPT ![t] = IF w \in bad THEN "failed" ELSE "success"]
        ELSE task[w]]

InitSrcConn ==
    /\ Running("init_src_conn")
    /\ \E ok \in BOOLEAN :
          /\ task' = Ended("init_src_conn", IF ok THEN {} ELSE Worlds)
          /\ conns' = IF ok THEN conns \cup {"sqlserver"} ELSE conns
    /\ UNCHANGED << d_src, d_sys_tables, d_dst0, d_dst, tbl_dict, table_names >>
    /\ UNCHANGED notDag

InitDstConn ==
    /\ Running("init_dst_conn")
    /\ \E ok \in BOOLEAN :
          /\ task' = Ended("init_dst_conn", IF ok THEN {} ELSE Worlds)
          /\ conns' = IF ok THEN conns \cup {"postgres"} ELSE conns
    /\ UNCHANGED << d_src, d_sys_tables, d_dst0, d_dst, tbl_dict, table_names >>
    /\ UNCHANGED notDag

DagExtract ==
    /\ Running("extract")
    /\ \E transient \in BOOLEAN :
          LET ok == ~transient /\ "sqlserver" \in conns
          IN /\ task' = Ended("extract", IF ok THEN {} ELSE Worlds)
             /\ tbl_dict' = IF ok THEN discover(d_sys_tables) ELSE tbl_dict
    /\ UNCHANGED << d_src, d_sys_tables, d_dst0, d_dst, conns, table_names >>
    /\ UNCHANGED notDag

PrepareTransform ==
    /\ Running("prepare_transform")
    /\ \E failAt \in 1..(Len(tbl_dict) + 1) :
          LET usable == {"sqlserver", "postgres"} \subseteq conns
              n  == IF usable THEN failAt - 1 ELSE 0
              ok == usable /\ failAt = Len(tbl_dict) + 1
          IN /\ task' = Ended("prepare_transform", IF ok THEN {} ELSE Worlds)
             /\ d_dst' = [w \in Worlds |->
                            IF task[w]["prepare_transform"] = "running"
                            THEN CopyFirst(d_dst[w], d_src, tbl_dict, n)
                            ELSE d_dst[w]]
             /\ table_names' = IF ok THEN tbl_dict ELSE table_names
    /\ UNCHANGED << d_src, d_sys_tables, d_dst0, conns, tbl_dict >>
    /\ UNCHANGED notDag

\* one of the three transform tasks, for the table it is written for
TransformTask(t, table_name) ==
    /\ Running(t)
    /\ \E transient \in BOOLEAN :
          LET bad == {w \in Worlds :
                        \/ transient
                        \/ "postgres" \notin conns
                        \/ transform_task_raises(d_dst[w], table_name)}
          IN /\ task' = Ended(t, bad)
             /\ d_dst' = [w \in Worlds |->
                            IF task[w][t] = "running" /\ w \notin bad
                            THEN transform_task(d_dst[w], table_name)
                            ELSE d_dst[w]]
    /\ UNCHANGED << d_src, d_sys_tables, d_dst0, conns, tbl_dict, table_names >>
    /\ UNCHANGED notDag

TransformProduct == TransformTask("transform_product", "DimProduct")

TransformProductSubcategory ==
    TransformTask("transform_product_subcategory", "DimProductSubcategory")

TransformProductCategory ==
    TransformTask("transform_product_category", "DimProductCategory")

MergeTables ==
    /\ Running("merge_tables")
    /\ \E transient \in BOOLEAN :
          LET bad == {w \in Worlds :
                        \/ transient
                        \/ "postgres" \notin conns
                        \/ merge_tables_raises(d_dst[w])}
          IN /\ task' = Ended("merge_tables", bad)
             /\ d_dst' = [w \in Worlds |->
                            IF task[w]["merge_tables"] = "running" /\ w \notin bad
                            THEN merge_tables_task(d_dst[w])
                            ELSE d_dst[w]]
    /\ UNCHANGED << d_src, d_sys_tables, d_dst0, conns, tbl_dict, table_names >>
    /\ UNCHANGED notDag

DagNext ==
    \/ StartTask
    \/ InitSrcConn
    \/ InitDstConn
    \/ DagExtract
    \/ PrepareTransform
    \/ TransformProduct
    \/ TransformProductSubcategory
    \/ TransformProductCategory
    \/ MergeTables

DagSpec == DagInit /\ [][DagNext]_vars

AllTasksSucceeded(w) == \A t \in Tasks : task[w][t] = "success"

OutputTables == {StgName(n) : n \in AllowList} \cup {MergedName}

\* C7: after a DAG run in which all tasks succeed, the contents of the three
\* stg_ tables and of prd_DimProductCategory depend on the source alone: the
\* same run on the same source ends with the same contents whatever the
\* destination held before.
C7_OutputIndependentOfPriorDestination ==
    (\A w \in Worlds : AllTasksSucceeded(w)) =>
        \A n \in OutputTables : d_dst[1][n] = d_dst[2][n]

\* the source of the end-to-end scenario: DimProduct holds one row whose
\* ProductSubcategoryKey and StandardCost are null, DimProductSubcategory and
\* DimProductCategory exist and are empty
NullRowScenario == d_src = SourceDB(AllowList, 1)

\* C11: on a source whose DimProduct holds one row with null
\* ProductSubcategoryKey and null StandardCost and whose DimProductSubcategory
\* and DimProductCategory are empty, no transform task and no merge can raise
\* on what it reads, stg_DimProduct gets the row with ProductSubcategoryKey 0
\* and StandardCost "0.00", and merge_tables writes prd_DimProductCategory as
\* an existing table with its columns and zero rows.
C11_NullRowScenario ==
    NullRowScenario =>
        \A w \in Worlds :
            /\ task[w]["transform_product"] = "running"
                  => ~transform_task_raises(d_dst[w], "DimProduct")
            /\ task[w]["transform_product_subcategory"] = "running"
                  => ~transform_task_raises(d_dst[w], "DimProductSubcategory")
            /\ task[w]["transform_product_category"] = "running"
                  => ~transform_task_raises(d_dst[w], "DimProductCategory")
            /\ task[w]["merge_tables"] = "running"
                  => ~merge_tables_raises(d_dst[w])
            /\ task[w]["transform_product"] = "success"
                  => /\ Len(d_dst[w]["stg_DimProduct"].rows) = 1
                     /\ d_dst[w]["stg_DimProduct"].rows[1]["ProductSubcategoryKey"]
                            = IntV(0)
                     /\ d_dst[w]["stg_DimProduct"].rows[1]["StandardCost"]
                            = StrV("0.00")
            /\ task[w]["merge_tables"] = "success"
                  => /\ MergedName \in DOMAIN d_dst[w]
                     /\ d_dst[w][MergedName].rows = << >>
                     /\ Len(d_dst[w][MergedName].cols) > 0

C11_Witness ==
    /\ NullRowScenario
    /\ AllTasksSucceeded(1)
    /\ d_dst[1][MergedName].rows = << >>
    /\ d_dst[1]["stg_DimProduct"].rows[1]["StandardCost"] = StrV("0.00")

RunningIn(w) == {t \in Tasks : task[w][t] = "running"}

\* the tasks the graph leaves unordered: the two of init_group, and the three
\* transform tasks of transform_group
InitTasks == {"init_src_conn", "init_dst_conn"}

TransformTasks == {"transform_product", "transform_product_subcategory",
                   "transform_product_category"}

\* C14 as stated: at every moment at most one task of the DAG is active.
C14_OneTaskAtATime == \A w \in Worlds : Cardinality(RunningIn(w)) <= 1

\* C14 amended: a task of the DAG is active only after all its upstream tasks
\* succeeded, so two tasks ordered by the graph are never active together;
\* tasks active at the same moment are the two init tasks, or are among the
\* three transform tasks, which the graph leaves unordered.
C14_OrderedTasksNeverOverlap ==
    \A w \in Worlds :
        /\ \A t \in RunningIn(w) :
              \A u \in Upstream(t) : task[w][u] = "success"
        /\ \/ RunningIn(w) \subseteq InitTasks
           \/ RunningIn(w) \subseteq TransformTasks
           \/ Cardinality(RunningIn(w)) = 1

C14_Witness ==
    /\ RunningIn(1) = TransformTasks
    /\ task[1]["init_src_conn"] = "success"

\* a task that has been started in world w
Started(w, t) == task[w][t] # "none"

\* C21: merge_tables is started only after the three transform tasks of the
\* run succeeded, each transform task only after prepare_transform, and
\* prepare_transform only after extract and both init tasks; and after a run
\* in which all tasks succeed the destination, the stg_ tables and
\* prd_DimProductCategory with it, is what the run with the transform tasks
\* one after another leaves: it is the same for every order in which the
\* three transform tasks run and end.
C21_OrderAndInterleaving ==
    \A w \in Worlds :
        /\ Started(w, "merge_tables")
              => \A t \in TransformTasks : task[w][t] = "success"
        /\ \A t \in TransformTasks :
              Started(w, t) => task[w]["prepare_transform"] = "success"
        /\ Started(w, "prepare_transform")
              => \A t \in {"extract"} \cup InitTasks : task[w][t] = "success"
        /\ Started(w, "extract")
              => \A t \in InitTasks : task[w][t] = "success"
        /\ AllTasksSucceeded(w)
              => d_dst[w] = DagRunFrom(d_dst0[w], d_src, tbl_dict)

\* all tasks succeeded, from an empty destination, on a source with rows that
\* join
C21_Witness ==
    /\ AllTasksSucceeded(1)
    /\ d_src = SourceDB(AllowList, 2)
    /\ Len(d_dst[1][MergedName].rows) >= 1
    /\ d_dst0[1] = EmptyDB

====
